---- MODULE Spec2Model ----
\* Request data binding of providers/httpserver (data_bind.go): dataBinder.Bind,
\* dataBinder.bindData and the scalar coercion helpers, as a state machine.
\*
\* Go strings are sequences of one-character strings, so that prefix tests,
\* case folding and number parsing are computed and not assumed.
\* Go values: string = character sequence, integer kinds = integer, bool =
\* BOOLEAN, slice = sequence of elements, pointer = <<>> (nil) or <<v>>,
\* struct = tuple of its fields' values in declaration order.
EXTENDS Integers, Sequences, FiniteSets, TLC

\* ---------------------------------------------------------------- bounds
\* Largest number of values (over all keys) of a source map built for bindData.
MaxValues == 3

\* ---------------------------------------------------------------- strings
Nil == "nil"

UpperLetters == <<"A","B","C","D","E","F","G","H","I","J","K","L","M",
                  "N","O","P","Q","R","S","T","U","V","W","X","Y","Z">>
LowerLetters == <<"a","b","c","d","e","f","g","h","i","j","k","l","m",
                  "n","o","p","q","r","s","t","u","v","w","x","y","z">>
Digits == <<"0","1","2","3","4","5","6","7","8","9">>

IsDigit(c) == \E i \in 1..Len(Digits) : Digits[i] = c
DigitVal(c) == (CHOOSE i \in 1..Len(Digits) : Digits[i] = c) - 1

\* Simple case folding of one ASCII character.
FoldChar(c) ==
    IF \E i \in 1..Len(UpperLetters) : UpperLetters[i] = c
    THEN LowerLetters[CHOOSE i \in 1..Len(UpperLetters) : UpperLetters[i] = c]
    ELSE c

\* strings.EqualFold on ASCII strings.
EqualFold(s, t) ==
    /\ Len(s) = Len(t)
    /\ \A i \in 1..Len(s) : FoldChar(s[i]) = FoldChar(t[i])

\* strings.HasPrefix.
HasPrefix(s, prefix) ==
    /\ Len(s) >= Len(prefix)
    /\ SubSeq(s, 1, Len(prefix)) = prefix

RECURSIVE DigitsValue(_)
DigitsValue(s) ==
    IF s = <<>> THEN 0
    ELSE 10 * DigitsValue(SubSeq(s, 1, Len(s) - 1)) + DigitVal(s[Len(s)])

\* ---------------------------------------------------------------- strconv
ErrSyntax == "invalid syntax"
ErrRange == "value out of range"

\* strconv.ParseUint(s, 10, bitSize): digits only, no sign. The values of the
\* model have at most four characters, so only the 8 and 16 bit sizes can
\* overflow; bit size 0 is the platform int (64 bits).
ParseUint(s, bitSize) ==
    IF s = <<>> \/ \E i \in 1..Len(s) : ~IsDigit(s[i])
    THEN [val |-> 0, err |-> ErrSyntax]
    ELSE LET ranged(n) == IF bitSize \in {8, 16} /\ n >= 2 ^ bitSize
                          THEN [val |-> 2 ^ bitSize - 1, err |-> ErrRange]
                          ELSE [val |-> n, err |-> Nil]
         IN ranged(DigitsValue(s))

\* strconv.ParseInt(s, 10, bitSize): optional sign, then digits; the magnitude
\* is checked against 2^(bitSize-1).
ParseInt(s, bitSize) ==
    IF s = <<>> THEN [val |-> 0, err |-> ErrSyntax]
    ELSE
      LET signed(neg, un, cutoff) ==
              IF un.err # Nil THEN [val |-> 0, err |-> un.err]
              ELSE IF cutoff > 0 /\ ~neg /\ un.val >= cutoff
              THEN [val |-> cutoff - 1, err |-> ErrRange]
              ELSE IF cutoff > 0 /\ neg /\ un.val > cutoff
              THEN [val |-> 0 - cutoff, err |-> ErrRange]
              ELSE [val |-> IF neg THEN 0 - un.val ELSE un.val, err |-> Nil]
      IN signed(s[1] = "-",
                ParseUint(IF s[1] \in {"+", "-"} THEN Tail(s) ELSE s, 0),
                IF bitSize \in {8, 16} THEN 2 ^ (bitSize - 1) ELSE 0)

\* strconv.ParseBool.
ParseBool(s) ==
    IF s \in {<<"1">>, <<"t">>, <<"T">>, <<"T","R","U","E">>,
              <<"t","r","u","e">>, <<"T","r","u","e">>}
    THEN [val |-> TRUE, err |-> Nil]
    ELSE IF s \in {<<"0">>, <<"f">>, <<"F">>, <<"F","A","L","S","E">>,
                   <<"f","a","l","s","e">>, <<"F","a","l","s","e">>}
    THEN [val |-> FALSE, err |-> Nil]
    ELSE [val |-> FALSE, err |-> ErrSyntax]

\* strconv.ParseFloat on decimal text: optional sign, digits with at most one
\* point and at least one digit. The value is num / 10^scale. Exponents, hex
\* floats, "inf" and "nan" need characters the model's values do not use.
ParseFloat(s) ==
    LET decimal(neg, rest, dots, digs) ==
            IF \/ digs = <<>>
               \/ Cardinality(dots) > 1
               \/ \E i \in 1..Len(rest) : ~IsDigit(rest[i]) /\ rest[i] # "."
            THEN [val |-> [num |-> 0, scale |-> 0], err |-> ErrSyntax]
            ELSE [val |-> [num |-> (IF neg THEN -1 ELSE 1) * DigitsValue(digs),
                           scale |-> IF dots = {} THEN 0
                                     ELSE Len(rest) - (CHOOSE i \in dots : TRUE)],
                  err |-> Nil]
        unsigned(neg, rest) ==
            decimal(neg, rest, {i \in 1..Len(rest) : rest[i] = "."}, SelectSeq(rest, IsDigit))
    IN unsigned(s # <<>> /\ s[1] = "-",
                IF s # <<>> /\ s[1] \in {"+", "-"} THEN Tail(s) ELSE s)

\* ---------------------------------------------------------------- types
\* A type: its reflect.Kind, the unmarshal interfaces its pointer implements,
\* its element type (Slice, Ptr) and its fields (Struct).
\* A field: name, tag per namespace (<<>> = no tag), CanSet, type.
Namespaces == {"form", "query", "param"}

Scalar(kind) == [kind |-> kind, hooks |-> {}, elem |-> Nil, fields |-> <<>>]
SliceOf(t) == [kind |-> "Slice", hooks |-> {}, elem |-> t, fields |-> <<>>]
PtrTo(t) == [kind |-> "Ptr", hooks |-> {}, elem |-> t, fields |-> <<>>]
StructOf(hooks, fields) == [kind |-> "Struct", hooks |-> hooks, elem |-> Nil, fields |-> fields]
MapType == [kind |-> "Map", hooks |-> {}, elem |-> Scalar("String"), fields |-> <<>>]

NoTags == [ns \in Namespaces |-> <<>>]
QueryTag(s) == [NoTags EXCEPT !["query"] = s]
AllTags(s) == [ns \in Namespaces |-> s]
Field(name, tags, settable, type) == [name |-> name, tags |-> tags, settable |-> settable, type |-> type]

\* type Inner struct { City string `query:"city"`; Zip int8 }
InnerType ==
    StructOf({}, <<Field(<<"C","i","t","y">>, QueryTag(<<"c","i","t","y">>), TRUE, Scalar("String")),
                   Field(<<"Z","i","p">>, NoTags, TRUE, Scalar("Int8"))>>)

\* type Stamp struct { wall int }, with UnmarshalText only (as time.Time).
StampType ==
    StructOf({"TextUnmarshaler"}, <<Field(<<"w","a","l","l">>, NoTags, FALSE, Scalar("Int"))>>)

\* type Id struct { num int }, with UnmarshalParam.
IdType ==
    StructOf({"BindUnmarshaler"}, <<Field(<<"n","u","m">>, NoTags, FALSE, Scalar("Int"))>>)

\* The record the model binds into:
\*   Name string `query:"name"`
\*   Age  int    `form:"age" query:"age" param:"age"`
\*   Tags []int  `query:"tags"`
\*   Addr Inner
\*   When Stamp
\*   Id   Id
\*   Ptr  *int   `query:"ptr"`
\*   Box  Inner  `query:"box"`
\*   seen int
TargetType ==
    StructOf({}, <<Field(<<"N","a","m","e">>, QueryTag(<<"n","a","m","e">>), TRUE, Scalar("String")),
                   Field(<<"A","g","e">>, AllTags(<<"a","g","e">>), TRUE, Scalar("Int")),
                   Field(<<"T","a","g","s">>, QueryTag(<<"t","a","g","s">>), TRUE, SliceOf(Scalar("Int"))),
                   Field(<<"A","d","d","r">>, NoTags, TRUE, InnerType),
                   Field(<<"W","h","e","n">>, NoTags, TRUE, StampType),
                   Field(<<"I","d">>, NoTags, TRUE, IdType),
                   Field(<<"P","t","r">>, QueryTag(<<"p","t","r">>), TRUE, PtrTo(Scalar("Int"))),
                   Field(<<"B","o","x">>, QueryTag(<<"b","o","x">>), TRUE, InnerType),
                   Field(<<"s","e","e","n">>, NoTags, FALSE, Scalar("Int"))>>)

\* reflect.Zero / reflect.New(t).Elem(): the zero value of a type.
RECURSIVE Zero(_)
Zero(t) ==
    CASE t.kind = "String" -> <<>>
      [] t.kind = "Bool" -> FALSE
      [] t.kind \in {"Slice", "Ptr", "Map"} -> <<>>
      [] t.kind = "Struct" -> [i \in 1..Len(t.fields) |-> Zero(t.fields[i].type)]
      [] t.kind \in {"Float32", "Float64"} -> [num |-> 0, scale |-> 0]
      [] OTHER -> 0

\* ------------------------------------------------- custom unmarshal dispatch
\* The hooks are code of the field's type. The model's hooks parse a decimal
\* integer into the type's single field and fail, leaving it as it was, on
\* anything else.
UnmarshalParam(value, v) ==
    LET parsed(p) == IF p.err # Nil THEN [val |-> v, err |-> "unmarshal param: " \o p.err]
                     ELSE [val |-> <<p.val>>, err |-> Nil]
    IN parsed(ParseInt(value, 0))

UnmarshalText(value, v) ==
    LET parsed(p) == IF p.err # Nil THEN [val |-> v, err |-> "unmarshal text: " \o p.err]
                     ELSE [val |-> <<p.val>>, err |-> Nil]
    IN parsed(ParseInt(value, 0))

\* unmarshalFieldNonPtr: (handled, error) and the field's value afterwards.
unmarshalFieldNonPtr(value, t, v) ==
    IF "BindUnmarshaler" \in t.hooks
    THEN [ok |-> TRUE] @@ UnmarshalParam(value, v)
    ELSE IF "TextUnmarshaler" \in t.hooks
    THEN [ok |-> TRUE] @@ UnmarshalText(value, v)
    ELSE [ok |-> FALSE, val |-> v, err |-> Nil]

\* unmarshalFieldPtr: a nil pointer is set to a new zero element first.
unmarshalFieldPtr(value, t, v) ==
    LET behindPtr(r) == [ok |-> r.ok, val |-> <<r.val>>, err |-> r.err]
    IN behindPtr(unmarshalFieldNonPtr(value, t.elem, IF v = <<>> THEN Zero(t.elem) ELSE v[1]))

unmarshalField(valueKind, value, t, v) ==
    IF valueKind = "Ptr" THEN unmarshalFieldPtr(value, t, v)
    ELSE unmarshalFieldNonPtr(value, t, v)

\* ------------------------------------------------- scalar coercion
BitSize(kind) ==
    CASE kind \in {"Int", "Uint"} -> 0
      [] kind \in {"Int8", "Uint8"} -> 8
      [] kind \in {"Int16", "Uint16"} -> 16
      [] kind \in {"Int32", "Uint32", "Float32"} -> 32
      [] OTHER -> 64

\* The parsed value is stored only when the parser returned no error; the
\* error is returned either way.
setIfParsed(p, v) == [val |-> IF p.err = Nil THEN p.val ELSE v, err |-> p.err]

\* A setIntField that stores the parser's result whatever the error.
setIntFieldAlways(value, bitSize, v) ==
    LET set(p) == [val |-> p.val, err |-> p.err]
    IN set(ParseInt(IF value = <<>> THEN <<"0">> ELSE value, bitSize))
setIntField(value, bitSize, v) ==
    setIfParsed(ParseInt(IF value = <<>> THEN <<"0">> ELSE value, bitSize), v)

setUintField(value, bitSize, v) ==
    setIfParsed(ParseUint(IF value = <<>> THEN <<"0">> ELSE value, bitSize), v)

setBoolField(value, v) ==
    setIfParsed(ParseBool(IF value = <<>> THEN <<"f","a","l","s","e">> ELSE value), v)

\* ParseFloat's rounding to bitSize is not modelled: the decimal value is kept.
setFloatField(value, bitSize, v) ==
    setIfParsed(ParseFloat(IF value = <<>> THEN <<"0",".","0">> ELSE value), v)

\* setWithProperType(valueKind, val, structField): the field's value
\* afterwards and the error.
RECURSIVE setWithProperType(_, _, _, _)
setWithProperType(valueKind, value, t, v) ==
    LET behindPtr(r) == [val |-> <<r.val>>, err |-> r.err]
        generic(u) ==
            CASE valueKind = "Ptr" ->
                   behindPtr(setWithProperType(t.elem.kind, value, t.elem, u.val[1]))
              [] valueKind \in {"Int", "Int8", "Int16", "Int32", "Int64"} ->
                   setIntField(value, BitSize(valueKind), v)
              [] valueKind \in {"Uint", "Uint8", "Uint16", "Uint32", "Uint64"} ->
                   setUintField(value, BitSize(valueKind), v)
              [] valueKind = "Bool" -> setBoolField(value, v)
              [] valueKind \in {"Float32", "Float64"} ->
                   setFloatField(value, BitSize(valueKind), v)
              [] valueKind = "String" -> [val |-> value, err |-> Nil]
              [] OTHER -> [val |-> v, err |-> "unknown type"]
        dispatched(u) == IF u.ok THEN [val |-> u.val, err |-> u.err] ELSE generic(u)
    IN dispatched(unmarshalField(valueKind, value, t, v))

\* ------------------------------------------------- bindData
\* A Go map is ranged over in an order the runtime picks afresh for every
\* range statement, so the case-insensitive search may stop at any key that
\* folds to the name: bindData is the set of its possible outcomes
\* [val |-> the target afterwards, err |-> the error returned].

\* A lookup that falls back to any key at all.
lookupAnyKey(data, inputFieldName) ==
    IF inputFieldName \in DOMAIN data THEN {data[inputFieldName]}
    ELSE {data[k] : k \in DOMAIN data}
\* Lines 129-146: the value lists the lookup of a name may yield.
lookup(data, inputFieldName) ==
    IF inputFieldName \in DOMAIN data THEN {data[inputFieldName]}
    ELSE {data[k] : k \in {k \in DOMAIN data : EqualFold(k, inputFieldName)}}

\* A slice builder that drops the values that do not parse.
RECURSIVE makeSliceSkipping(_, _, _)
makeSliceSkipping(elemType, inputValue, j) ==
    IF j > Len(inputValue) THEN [val |-> <<>>, err |-> Nil]
    ELSE LET joined(r, rest) ==
                 [val |-> (IF r.err = Nil THEN <<r.val>> ELSE <<>>) \o rest.val, err |-> rest.err]
         IN joined(setWithProperType(elemType.kind, inputValue[j], elemType, Zero(elemType)),
                   makeSliceSkipping(elemType, inputValue, j + 1))
\* Lines 156-164: the slice built from the values, or the first element error.
RECURSIVE makeSlice(_, _, _)
makeSlice(elemType, inputValue, j) ==
    IF j > Len(inputValue) THEN [val |-> <<>>, err |-> Nil]
    ELSE LET joined(r, rest) == [val |-> <<r.val>> \o rest.val, err |-> rest.err]
             element(r) == IF r.err # Nil THEN [val |-> <<>>, err |-> r.err]
                           ELSE joined(r, makeSlice(elemType, inputValue, j + 1))
         IN element(setWithProperType(elemType.kind, inputValue[j], elemType, Zero(elemType)))

\* Line 157: when a slice is built from the values.
buildsSliceSeveral(structFieldKind, numElems) == structFieldKind = "Slice" /\ numElems > 1
buildsSlice(structFieldKind, numElems) == structFieldKind = "Slice" /\ numElems > 0

\* Lines 148-169: one field bound from the value list found for it.
bindField(t, v, inputValue) ==
    LET set(slice, old) == [val |-> IF slice.err = Nil THEN slice.val ELSE old, err |-> slice.err]
        dispatched(u, numElems) ==
            IF u.ok THEN [val |-> u.val, err |-> u.err]
            ELSE IF buildsSlice(t.kind, numElems)
            THEN set(makeSlice(t.elem, inputValue, 1), u.val)
            ELSE setWithProperType(t.kind, inputValue[1], t, u.val)
    IN dispatched(unmarshalField(t.kind, inputValue[1], t, v), Len(inputValue))

\* Line 121: an untagged field is recursed into when it is a struct whose
\* pointer is no echo.BindUnmarshaler.
recurses(f, tag) ==
    /\ f.tags[tag] = <<>>
    /\ "BindUnmarshaler" \notin f.type.hooks
    /\ f.type.kind = "Struct"

\* Lines 116-119: the name looked up for a field.
inputFieldName(f, tag) == IF f.tags[tag] = <<>> THEN f.name ELSE f.tags[tag]

RECURSIVE bindData(_, _, _, _)
RECURSIVE bindFields(_, _, _, _, _)
\* Lines 109-170: the loop over the fields, from field i on.
bindFields(typ, val, data, tag, i) ==
    IF i > Len(typ.fields) THEN {[val |-> val, err |-> Nil]}
    ELSE
      LET after(r) == IF r.err # Nil
                      THEN {[val |-> [val EXCEPT ![i] = r.val], err |-> r.err]}
                      ELSE bindFields(typ, [val EXCEPT ![i] = r.val], data, tag, i + 1)
          skipped == {[val |-> val[i], err |-> Nil]}
          named(f, found) ==
              IF found = {} THEN skipped
              ELSE {bindField(f.type, val[i], inputValue) : inputValue \in found}
          field(f) ==
              IF ~f.settable THEN skipped
              ELSE IF recurses(f, tag) THEN bindData(f.type, val[i], data, tag)
              ELSE named(f, lookup(data, inputFieldName(f, tag)))
      IN UNION {after(r) : r \in field(typ.fields[i])}

\* Lines 89-171. ptr is never nil: Bind passes its own argument on.
bindData(typ, val, data, tag) ==
    IF DOMAIN data = {} THEN {[val |-> val, err |-> Nil]}
    ELSE IF typ.kind = "Map"
    THEN {[val |-> [k \in DOMAIN val \cup DOMAIN data |->
                       IF k \in DOMAIN data THEN data[k][1] ELSE val[k]],
           err |-> Nil]}
    ELSE IF typ.kind # "Struct"
    THEN {[val |-> val, err |-> "binding element must be a struct"]}
    ELSE bindFields(typ, val, data, tag, 1)

\* ------------------------------------------------- errors of Bind
StatusBadRequest == 400
StatusUnsupportedMediaType == 415
NoError == [kind |-> "none", code |-> 0, message |-> "", internal |-> Nil]
\* echo.NewHTTPError(code, message).SetInternal(err)
HTTPError(code, message, internal) ==
    [kind |-> "HTTPError", code |-> code, message |-> message, internal |-> internal]
\* fmt.Errorf(format, err): a plain error that holds only the text.
Errorf(format, err) == [kind |-> "error", code |-> 0, message |-> format \o err, internal |-> Nil]
\* echo.ErrUnsupportedMediaType
ErrUnsupportedMediaType == HTTPError(StatusUnsupportedMediaType, "Unsupported Media Type", Nil)

\* ------------------------------------------------- bindData, called alone
VARIABLES
    data,     \* the source map being built, then bound
    tag,      \* the namespace of the call
    phase,    \* "input", "bound" (one call made), "again" (a second call made)
    before,   \* the target before the call
    out,      \* the outcome of the call
    out2      \* the outcome of a second call on an equal target and equal inputs

\* ------------------------------------------------- Bind: the request
VARIABLES
    contentLength,  \* req.ContentLength: -1 when the length is unknown (chunked)
    ctype,          \* the Content-Type header
    method,         \* req.Method
    body,           \* req.Body: [bytes, pos], a reader over bytes at position pos
    readFails,      \* whether reading req.Body returns an error
    query,          \* c.QueryParams()
    params,         \* c.ParamNames() and c.ParamValues(), as <<name, value>> pairs
    targetType,     \* the type i points to
    target,         \* the value i points to
    pc,             \* where Bind is: "start", "decode", "query", "param", "done", "read"
    ret,            \* the error Bind returned
    cause,          \* the underlying error of the failure
    stages,         \* the stages run so far, each with its error
    consumed,       \* whether Bind has read req.Body to its end
    downstream      \* what a read of req.Body after Bind returned

dataVars == <<data, tag, phase, before, out, out2>>
bindVars == <<contentLength, ctype, method, body, readFails, query, params, targetType,
              target, pc, ret, cause, stages, consumed, downstream>>
vars == <<dataVars, bindVars>>

\* The keys and values source maps are built from.
Keys == {<<"n","a","m","e">>, <<"N","a","m","e">>, <<"N","A","M","E">>,
         <<"a","g","e">>, <<"t","a","g","s">>, <<"c","i","t","y">>,
         <<"Z","i","p">>, <<"W","h","e","n">>, <<"I","d">>, <<"p","t","r">>}
Values == {<<"7">>, <<"x">>, <<"-","1","2","9">>}

\* A target that has been written before: every change shows.
Old == <<"o","l","d">>
InitialTarget == <<Old, 5, <<9>>, <<Old, 1>>, <<3>>, <<4>>, <<>>, <<Old, 2>>, 6>>

NoOutcome == [val |-> InitialTarget, err |-> "not called"]

\* The number of values in a source map.
RECURSIVE CountValues(_)
CountValues(d) ==
    IF DOMAIN d = {} THEN 0
    ELSE LET k == CHOOSE k \in DOMAIN d : TRUE
         IN Len(d[k]) + CountValues([x \in DOMAIN d \ {k} |-> d[x]])

\* No request is being bound while bindData is called alone.
NoRequest ==
    /\ contentLength = 0 /\ ctype = <<>> /\ method = "GET"
    /\ body = [bytes |-> <<>>, pos |-> 0] /\ readFails = FALSE
    /\ query = <<>> /\ params = <<>>
    /\ targetType = TargetType /\ target = InitialTarget
    /\ pc = "idle" /\ ret = NoError /\ cause = Nil /\ stages = <<>>
    /\ consumed = FALSE /\ downstream = Nil

\* The namespaces bindData is called with alone: the record's "param" tags
\* are those of "form", so the two resolve every field alike.
CallNamespaces == {"form", "query"}

InitData ==
    /\ data = <<>>
    /\ tag \in CallNamespaces
    /\ phase = "input"
    /\ before = InitialTarget
    /\ out = NoOutcome
    /\ out2 = NoOutcome
    /\ NoRequest

\* The request grows by one value, as url.Values.Add does.
AddValue(k, v) ==
    /\ phase = "input"
    /\ CountValues(data) < MaxValues
    /\ data' = IF k \in DOMAIN data
               THEN [data EXCEPT ![k] = Append(@, v)]
               ELSE [x \in DOMAIN data \cup {k} |-> IF x = k THEN <<v>> ELSE data[x]]
    /\ UNCHANGED <<tag, phase, before, out, out2>>
    /\ UNCHANGED bindVars

\* b.bindData(&target, data, tag)
CallBindData ==
    /\ phase = "input"
    /\ \E r \in bindData(TargetType, before, data, tag) : out' = r
    /\ phase' = "bound"
    /\ UNCHANGED <<data, tag, before, out2>>
    /\ UNCHANGED bindVars

\* The same call again, on a target equal to the first call's.
CallBindDataAgain ==
    /\ phase = "bound"
    /\ \E r \in bindData(TargetType, before, data, tag) : out2' = r
    /\ phase' = "again"
    /\ UNCHANGED <<data, tag, before, out>>
    /\ UNCHANGED bindVars

NextData ==
    \/ \E k \in Keys, v \in Values : AddValue(k, v)
    \/ CallBindData
    \/ CallBindDataAgain

SpecData == InitData /\ [][NextData]_vars

\* ------------------------------------------------- properties of bindData
\* The first call has returned; out is its outcome.
Called == phase = "bound"

\* A field bindData binds by name: settable, and not a plain nested record.
PlainRecord(f) == f.tags[tag] = <<>> /\ f.type.kind = "Struct" /\ f.type.hooks = {}
ResolvedName(f) == IF f.tags[tag] = <<>> THEN f.name ELSE f.tags[tag]
MatchingKeys(name) == {k \in DOMAIN data : EqualFold(k, name)}
Absent(name) == name \notin DOMAIN data /\ MatchingKeys(name) = {}
Entries(name) ==
    IF name \in DOMAIN data THEN {data[name]} ELSE {data[k] : k \in MatchingKeys(name)}
ScalarKinds == {"String", "Bool", "Int", "Int8", "Int16", "Int32", "Int64",
                "Uint", "Uint8", "Uint16", "Uint32", "Uint64", "Float32", "Float64"}

\* The outcomes of binding field i of a record alone.
Single(typ, b, i) == bindData(StructOf({}, <<typ.fields[i]>>), <<b[i]>>, data, tag)

RECURSIVE AbsentFieldsKept(_, _, _)
AbsentFieldsKept(typ, b, a) ==
    \A i \in 1..Len(typ.fields) :
        LET f == typ.fields[i]
        IN IF PlainRecord(f) THEN AbsentFieldsKept(f.type, b[i], a[i])
           ELSE Absent(ResolvedName(f)) => a[i] = b[i]

RECURSIVE AllFieldsAbsent(_)
AllFieldsAbsent(typ) ==
    \A i \in 1..Len(typ.fields) :
        LET f == typ.fields[i]
        IN IF PlainRecord(f) THEN AllFieldsAbsent(f.type)
           ELSE ~f.settable \/ Absent(ResolvedName(f))

RECURSIVE StopsAtFirstFailure(_, _, _, _)
StopsAtFirstFailure(typ, b, a, err) ==
    \E i \in 1..Len(typ.fields) :
        LET f == typ.fields[i]
        IN /\ \A j \in 1..(i - 1) :
                \E r \in Single(typ, b, j) : r.err = Nil /\ r.val[1] = a[j]
           /\ \E r \in Single(typ, b, i) : r.err = err /\ r.val[1] = a[i]
           /\ f.type.kind \in ScalarKinds /\ f.type.hooks = {} => a[i] = b[i]
           /\ PlainRecord(f) => StopsAtFirstFailure(f.type, b[i], a[i], err)
           /\ \A j \in (i + 1)..Len(typ.fields) : a[j] = b[j]

\* C6: a failing call stopped at one field, in declaration order: every field
\* before it holds the value binding it alone assigns, the failing field, when
\* a scalar, is not assigned, and every field after it is as before the call.
C6_FirstFailureStops ==
    (Called /\ out.err # Nil) => StopsAtFirstFailure(TargetType, before, out.val, out.err)

\* C6's case: the name was bound, the age failed to parse and was not
\* assigned, and the pointer, though its key is in the map, was not reached.
C6_Witness ==
    /\ phase = "bound"
    /\ tag = "query"
    /\ DOMAIN data = {<<"n","a","m","e">>, <<"a","g","e">>, <<"p","t","r">>}
    /\ data[<<"a","g","e">>] = <<<<"x">>>>
    /\ out.err = ErrSyntax
    /\ out.val[1] = <<"7">>
    /\ out.val[2] = before[2]
    /\ out.val[7] = <<>>

\* The slice fields of the record bound by name, without unmarshal hooks.
SliceFields ==
    {i \in 1..Len(TargetType.fields) :
        LET f == TargetType.fields[i]
        IN f.settable /\ f.type.kind = "Slice" /\ f.type.hooks = {} /\ f.type.elem.hooks = {}}
Coerced(t, value) == setWithProperType(t.kind, value, t, Zero(t))
AllCoerce(t, values) == \A j \in 1..Len(values) : Coerced(t, values[j]).err = Nil
CoercedSeq(t, values) == [j \in 1..Len(values) |-> Coerced(t, values[j]).val]

\* C7: a sequence field bound from several values is either assigned the
\* sequence of their coercions, in order and of the same length, or, when a
\* value fails to coerce, left as before the call with the call failing; no
\* partly built sequence is ever in the target.
C7_SequenceAllOrNothing ==
    Called =>
        \A i \in SliceFields : \A values \in Entries(ResolvedName(TargetType.fields[i])) :
            LET t == TargetType.fields[i].type.elem
            IN Len(values) > 1 =>
                /\ out.val[i] = before[i] \/ (AllCoerce(t, values) /\ out.val[i] = CoercedSeq(t, values))
                /\ out.err = Nil => out.val[i] = CoercedSeq(t, values)
                /\ ~AllCoerce(t, values) => out.err # Nil /\ out.val[i] = before[i]
                /\ (~AllCoerce(t, values) /\ \A j \in 1..(i - 1) : \A r \in Single(TargetType, before, j) : r.err = Nil)
                      => \E j \in 1..Len(values) :
                            /\ out.err = Coerced(t, values[j]).err
                            /\ \A h \in 1..(j - 1) : Coerced(t, values[h]).err = Nil

\* C7's case: three values, the second of which does not parse.
C7_Witness ==
    /\ phase = "bound"
    /\ tag = "query"
    /\ <<"t","a","g","s">> \in DOMAIN data
    /\ data[<<"t","a","g","s">>] = <<<<"7">>, <<"x">>, <<"7">>>>
    /\ out.err = ErrSyntax
    /\ out.val[3] = <<9>>

\* C7's other case: every value parses and the sequence is assigned.
C7_WitnessAssigned ==
    /\ phase = "bound"
    /\ <<"t","a","g","s">> \in DOMAIN data
    /\ out.val[3] = <<7, -129, 7>>

\* The untagged struct fields of the record that declare an unmarshal hook.
HookedRecordFields ==
    {i \in 1..Len(TargetType.fields) :
        LET f == TargetType.fields[i]
        IN f.settable /\ f.tags[tag] = <<>> /\ f.type.kind = "Struct" /\ f.type.hooks # {}}
Dispatched(t, value, v) ==
    IF "BindUnmarshaler" \in t.hooks THEN UnmarshalParam(value, v) ELSE UnmarshalText(value, v)

\* C8: an untagged nested record that declares either unmarshal hook is not
\* recursed into but bound by its name through the hook: after a call that
\* succeeds, such a field whose name is a key of the map holds what the hook
\* makes of the first value.
C8_HookedRecordBoundByName ==
    (Called /\ out.err = Nil) =>
        \A i \in HookedRecordFields :
            LET f == TargetType.fields[i]
            IN f.name \in DOMAIN data =>
                 out.val[i] = Dispatched(f.type, data[f.name][1], before[i]).val

\* C8, for the hook the code does look for: the field with UnmarshalParam is
\* bound by name.
C8_ParamHookBoundByName ==
    (Called /\ out.err = Nil) =>
        \A i \in HookedRecordFields :
            LET f == TargetType.fields[i]
            IN ("BindUnmarshaler" \in f.type.hooks /\ f.name \in DOMAIN data) =>
                 out.val[i] = UnmarshalParam(data[f.name][1], before[i]).val

\* The fields bound by name through generic coercion.
CoercedFields ==
    {i \in 1..Len(TargetType.fields) :
        LET f == TargetType.fields[i]
        IN /\ f.settable /\ ~PlainRecord(f) /\ f.type.hooks = {}
           /\ f.type.kind \in {"Slice", "Ptr"} => f.type.elem.hooks = {}}
OnlyKeyFor(name) == Cardinality(DOMAIN data) = 1 /\ ~Absent(name)

\* C9, as claimed: a sequence field whose entry holds exactly one value gets
\* that value from the scalar coercion with the field's declared kind, as any
\* field that is no sequence does.
C9_SingleValueCoercedAsScalar ==
    Called =>
        \A i \in CoercedFields :
            LET f == TargetType.fields[i]
                r == setWithProperType(f.type.kind, data[CHOOSE k \in DOMAIN data : TRUE][1], f.type, before[i])
            IN (OnlyKeyFor(ResolvedName(f)) /\ Len(data[CHOOSE k \in DOMAIN data : TRUE]) = 1)
                  => out.val[i] = r.val /\ out.err = r.err

\* C9, amended: a sequence is built whenever the field is a sequence type and
\* at least one value is present, so one value gives a sequence of one
\* element; a field that is no sequence gets its first value from the scalar
\* coercion with its declared kind.
C9_SequenceFromOneValueOn ==
    Called =>
        \A i \in CoercedFields :
            LET f == TargetType.fields[i]
                values == data[CHOOSE k \in DOMAIN data : TRUE]
                r == setWithProperType(f.type.kind, values[1], f.type, before[i])
            IN /\ (OnlyKeyFor(ResolvedName(f)) /\ f.type.kind # "Slice")
                    => out.val[i] = r.val /\ out.err = r.err
               /\ (OnlyKeyFor(ResolvedName(f)) /\ f.type.kind = "Slice" /\ AllCoerce(f.type.elem, values))
                    => out.val[i] = CoercedSeq(f.type.elem, values) /\ out.err = Nil
               /\ (OnlyKeyFor(ResolvedName(f)) /\ f.type.kind = "Slice" /\ ~AllCoerce(f.type.elem, values))
                    => out.val[i] = before[i] /\ out.err # Nil
               /\ (out.err = Nil /\ f.type.kind = "Slice")
                    => \A vs \in Entries(ResolvedName(f)) : out.val[i] = CoercedSeq(f.type.elem, vs)
               /\ (out.err = Nil /\ f.type.kind # "Slice")
                    => \E vs \in Entries(ResolvedName(f)) \cup {<<>>} :
                          IF vs = <<>> THEN Absent(ResolvedName(f))
                          ELSE out.val[i] = setWithProperType(f.type.kind, vs[1], f.type, before[i]).val

\* C9's case: the sequence field bound from an entry of exactly one value
\* holds a sequence of one element.
C9_Witness ==
    /\ phase = "bound"
    /\ tag = "query"
    /\ DOMAIN data = {<<"t","a","g","s">>}
    /\ data[<<"t","a","g","s">>] = <<<<"7">>>>
    /\ out.err = Nil
    /\ out.val[3] = <<7>>

\* C10: two calls on equal targets with the same source map and namespace end
\* with equal targets and the same error.
C10_Deterministic ==
    phase = "again" => out = out2

\* Without two keys that fold to one looked-up name, the calls do agree.
AmbiguousName ==
    \E k1, k2 \in DOMAIN data : k1 # k2 /\ EqualFold(k1, k2)
C10_DeterministicUnlessAmbiguous ==
    (phase = "again" /\ ~AmbiguousName) => out = out2

\* ------------------------------------------------- Bind
\* echo's MIME constants.
MIMEApplicationJSON == <<"a","p","p","l","i","c","a","t","i","o","n","/","j","s","o","n">>
MIMEApplicationXML == <<"a","p","p","l","i","c","a","t","i","o","n","/","x","m","l">>
MIMETextXML == <<"t","e","x","t","/","x","m","l">>
MIMEApplicationForm == <<"a","p","p","l","i","c","a","t","i","o","n","/","x","-","w","w","w","-","f","o","r","m","-","u","r","l","e","n","c","o","d","e","d">>
MIMEMultipartForm == <<"m","u","l","t","i","p","a","r","t","/","f","o","r","m","-","d","a","t","a">>

\* The Content-Type headers of the requests of the model.
ContentTypes ==
    {<<>>, MIMEApplicationJSON, MIMEApplicationJSON \o <<";"," ","c","h","a","r","s","e","t","=","U","T","F","-","8">>, MIMEApplicationXML, MIMETextXML,
     MIMEApplicationForm, MIMEMultipartForm \o <<";"," ","b","o","u","n","d","a","r","y","=","x">>, <<"a","p","p","l","i","c","a","t","i","o","n","/","o","c","t","e","t","-","s","t","r","e","a","m">>, <<"t","e","x","t","/","p","l","a","i","n">>}

\* The bytes of the request body, and the types Bind is given a pointer to.
BodyBytes == <<"b1", "b2", "b3">>
TargetTypes == {TargetType, MapType, Scalar("Int")}
InitialValue(t) == IF t = TargetType THEN InitialTarget ELSE Zero(t)

\* Source maps of the requests of the model.
OneEntry(k, v) == [x \in {k} |-> <<v>>]
Sources == {<<>>, OneEntry(<<"a","g","e">>, <<"7">>), OneEntry(<<"a","g","e">>, <<"x">>),
            OneEntry(<<"n","a","m","e">>, <<"7">>)}
ParamLists == {<<>>, << <<<<"a","g","e">>, <<"7">>>> >>, << <<<<"a","g","e">>, <<"x">>>> >>,
               << <<<<"I","d">>, <<"7">>>>, <<<<"I","d">>, <<"-","1","2","9">>>> >>}

Init ==
    /\ contentLength \in {-1, 0, Len(BodyBytes)}
    /\ ctype \in ContentTypes
    /\ method \in {"GET", "POST"}
    /\ body = [bytes |-> IF contentLength = 0 THEN <<>> ELSE BodyBytes, pos |-> 0]
    /\ readFails \in BOOLEAN
    /\ query \in Sources
    /\ params \in ParamLists
    /\ targetType \in TargetTypes
    /\ target = InitialValue(targetType)
    /\ pc = "start"
    /\ ret = NoError
    /\ cause = Nil
    /\ stages = <<>>
    /\ consumed = FALSE
    /\ downstream = Nil
    /\ data = <<>> /\ tag = "query" /\ phase = "idle"
    /\ before = InitialTarget /\ out = NoOutcome /\ out2 = NoOutcome

\* Lines 28-31: the content type the switch looks at.
effectiveType(header) == IF Len(header) <= 0 THEN MIMEApplicationJSON ELSE header

\* Line 27: whether Bind decodes a body.
hasBody(length) == length > 0

\* Lines 37-66: the case of the switch a content type takes.
decoder(ct) ==
    IF HasPrefix(ct, MIMEApplicationJSON) THEN "json"
    ELSE IF HasPrefix(ct, MIMEApplicationXML) \/ HasPrefix(ct, MIMETextXML) THEN "xml"
    ELSE IF HasPrefix(ct, MIMEApplicationForm) \/ HasPrefix(ct, MIMEMultipartForm) THEN "form"
    ELSE "default"

\* Lines 68-72: the kind of the target under its pointers.
bindsFields(t) == t.kind = "Struct"

\* Lines 73-75 and 82-84: where Bind goes after a bindData pass.
afterQueryAlways(err) == "param"
afterQuery(err) == IF err # Nil THEN "done" ELSE "param"

\* Lines 76-81: the map built from the path parameters; a later pair of the
\* same name replaces an earlier one.
paramMap(pairs) ==
    [name \in {pairs[i][1] : i \in 1..Len(pairs)} |->
        <<pairs[CHOOSE i \in 1..Len(pairs) :
                  /\ pairs[i][1] = name
                  /\ \A j \in (i + 1)..Len(pairs) : pairs[j][1] # name][2]>>]

\* What a decoder of encoding/json or encoding/xml may leave in the target:
\* nothing, or what it decoded so far.
Decoded(t, v) ==
    CASE t.kind = "Struct" -> {v, [v EXCEPT ![1] = <<"j">>]}
      [] t.kind = "Map" -> {v, <<"j">> :> <<"j">>}
      [] OTHER -> {v, 1}

Return(err, why) ==
    /\ ret' = err
    /\ cause' = why
    /\ pc' = "done"

\* Lines 26-36: the body is read whole and req.Body replaced by a reader over
\* the bytes read; a failing read returns at once, req.Body left where the
\* read stopped.
ReadBody ==
    /\ pc = "start"
    /\ hasBody(contentLength)
    /\ IF readFails
       THEN /\ \E n \in 0..Len(body.bytes) : body' = [body EXCEPT !.pos = n]
            /\ Return(Errorf("fail to read body: ", "unexpected EOF"), "unexpected EOF")
            /\ UNCHANGED consumed
       ELSE /\ body' = [bytes |-> SubSeq(body.bytes, body.pos + 1, Len(body.bytes)), pos |-> 0]
            /\ consumed' = TRUE
            /\ pc' = "decode"
            /\ UNCHANGED <<ret, cause>>
    /\ UNCHANGED <<contentLength, ctype, method, readFails, query, params, targetType,
                   target, stages, downstream>>
    /\ UNCHANGED dataVars

\* Line 27, the other branch: no body is decoded.
SkipBody ==
    /\ pc = "start"
    /\ ~hasBody(contentLength)
    /\ pc' = IF bindsFields(targetType) THEN "query" ELSE "done"
    /\ UNCHANGED <<contentLength, ctype, method, body, readFails, query, params, targetType,
                   target, ret, cause, stages, consumed, downstream>>
    /\ UNCHANGED dataVars

\* A body stage ends: on an error Bind returns it, otherwise it goes on to
\* line 68.
EndBody(err, why) ==
    /\ stages' = Append(stages, [stage |-> "body", err |-> why])
    /\ IF why # Nil THEN Return(err, why)
       ELSE /\ pc' = IF bindsFields(targetType) THEN "query" ELSE "done"
            /\ UNCHANGED <<ret, cause>>

\* Lines 38-46: json.Unmarshal(body, i).
DecodeJSON ==
    /\ pc = "decode"
    /\ decoder(effectiveType(ctype)) = "json"
    /\ \E v \in Decoded(targetType, target) :
         /\ target' = v
         /\ \/ EndBody(NoError, Nil)
            \/ EndBody(HTTPError(StatusBadRequest, "Unmarshal type error: expected=, got=, field=, offset=",
                                 "json.UnmarshalTypeError"), "json.UnmarshalTypeError")
            \/ EndBody(HTTPError(StatusBadRequest, "Syntax error: offset=, error=",
                                 "json.SyntaxError"), "json.SyntaxError")
            \/ EndBody(HTTPError(StatusBadRequest, "json: other error", "json: other error"),
                       "json: other error")
    /\ UNCHANGED <<contentLength, ctype, method, body, readFails, query, params, targetType,
                   consumed, downstream>>
    /\ UNCHANGED dataVars

\* Lines 47-55: xml.Unmarshal(body, i).
DecodeXML ==
    /\ pc = "decode"
    /\ decoder(effectiveType(ctype)) = "xml"
    /\ \E v \in Decoded(targetType, target) :
         /\ target' = v
         /\ \/ EndBody(NoError, Nil)
            \/ EndBody(HTTPError(StatusBadRequest, "Unsupported type error: type=, error=",
                                 "xml.UnsupportedTypeError"), "xml.UnsupportedTypeError")
            \/ EndBody(HTTPError(StatusBadRequest, "Syntax error: line=, error=",
                                 "xml.SyntaxError"), "xml.SyntaxError")
            \/ EndBody(HTTPError(StatusBadRequest, "xml: other error", "xml: other error"),
                       "xml: other error")
    /\ UNCHANGED <<contentLength, ctype, method, body, readFails, query, params, targetType,
                   consumed, downstream>>
    /\ UNCHANGED dataVars

\* c.FormParams() (line 57) has net/http parse the form, which reads req.Body:
\* ParseForm reads it to its end for POST, PUT and PATCH, before it parses,
\* and not at all for other methods; ParseMultipartForm reads it for every
\* method, to its end or, on an error, to where the multipart reader stopped.
\* The positions req.Body may be at afterwards.
formReads(ct, m, reader, failed) ==
    IF HasPrefix(ct, MIMEMultipartForm)
    THEN IF failed THEN (reader.pos + 1)..Len(reader.bytes) ELSE {Len(reader.bytes)}
    ELSE IF m \in {"POST", "PUT", "PATCH"} THEN {Len(reader.bytes)}
    ELSE {reader.pos}

\* Lines 56-63: the form is parsed and bound with namespace "form".
BindForm ==
    /\ pc = "decode"
    /\ decoder(effectiveType(ctype)) = "form"
    /\ \/ /\ \E n \in formReads(ctype, method, body, TRUE) : body' = [body EXCEPT !.pos = n]
          /\ EndBody(HTTPError(StatusBadRequest, "malformed form", "malformed form"),
                     "malformed form")
          /\ UNCHANGED target
       \/ /\ \E n \in formReads(ctype, method, body, FALSE) : body' = [body EXCEPT !.pos = n]
          /\ \E form \in Sources : \E r \in bindData(targetType, target, form, "form") :
               /\ target' = r.val
               /\ EndBody(HTTPError(StatusBadRequest, r.err, r.err), r.err)
    /\ UNCHANGED <<contentLength, ctype, method, readFails, query, params, targetType,
                   consumed, downstream>>
    /\ UNCHANGED dataVars

\* Lines 64-65: no decoder for the content type.
Unsupported ==
    /\ pc = "decode"
    /\ decoder(effectiveType(ctype)) = "default"
    /\ Return(ErrUnsupportedMediaType, Nil)
    /\ UNCHANGED <<contentLength, ctype, method, body, readFails, query, params, targetType,
                   target, stages, consumed, downstream>>
    /\ UNCHANGED dataVars

\* Lines 72-75: bindData over the query parameters.
BindQuery ==
    /\ pc = "query"
    /\ \E r \in bindData(targetType, target, query, "query") :
         /\ target' = r.val
         /\ stages' = Append(stages, [stage |-> "query", err |-> r.err])
         /\ pc' = afterQuery(r.err)
         /\ ret' = IF r.err # Nil THEN HTTPError(StatusBadRequest, r.err, r.err) ELSE ret
         /\ cause' = r.err
    /\ UNCHANGED <<contentLength, ctype, method, body, readFails, query, params, targetType,
                   consumed, downstream>>
    /\ UNCHANGED dataVars

\* Lines 76-86: bindData over the path parameters, and the return.
BindParam ==
    /\ pc = "param"
    /\ \E r \in bindData(targetType, target, paramMap(params), "param") :
         /\ target' = r.val
         /\ stages' = Append(stages, [stage |-> "param", err |-> r.err])
         /\ ret' = IF r.err # Nil THEN HTTPError(StatusBadRequest, r.err, r.err) ELSE ret
         /\ cause' = IF r.err # Nil THEN r.err ELSE cause
    /\ pc' = "done"
    /\ UNCHANGED <<contentLength, ctype, method, body, readFails, query, params, targetType,
                   consumed, downstream>>
    /\ UNCHANGED dataVars

\* After Bind has returned, a handler reads req.Body to its end.
DownstreamRead ==
    /\ pc = "done"
    /\ downstream' = SubSeq(body.bytes, body.pos + 1, Len(body.bytes))
    /\ body' = [body EXCEPT !.pos = Len(body.bytes)]
    /\ pc' = "read"
    /\ UNCHANGED <<contentLength, ctype, method, readFails, query, params, targetType,
                   target, ret, cause, stages, consumed>>
    /\ UNCHANGED dataVars

Next ==
    \/ ReadBody
    \/ SkipBody
    \/ DecodeJSON
    \/ DecodeXML
    \/ BindForm
    \/ Unsupported
    \/ BindQuery
    \/ BindParam
    \/ DownstreamRead

Spec == Init /\ [][Next]_vars

\* ------------------------------------------------- properties of Bind
Returned == pc \in {"done", "read"}
StageNames == [i \in 1..Len(stages) |-> stages[i].stage]
MIMEPrefixes == {MIMEApplicationJSON, MIMEApplicationXML, MIMETextXML,
                 MIMEApplicationForm, MIMEMultipartForm}
\* A content type that is given and has none of the five prefixes.
Unmatched(header) == header # <<>> /\ \A m \in MIMEPrefixes : ~HasPrefix(header, m)
Untouched == target = InitialValue(targetType)

\* C1: with a nonzero content length and a content type that matches none of
\* the prefixes, Bind (its read of the body succeeding) returns the
\* unsupported-media-type failure, writes nothing to the target and runs
\* neither the query nor the param pass.
C1_UnsupportedNonzeroLength ==
    (Returned /\ contentLength # 0 /\ ~readFails /\ Unmatched(ctype)) =>
        ret = ErrUnsupportedMediaType /\ Untouched /\ stages = <<>>

\* C1 holds of the requests whose content length is positive.
C1_UnsupportedPositiveLength ==
    (Returned /\ contentLength > 0 /\ ~readFails /\ Unmatched(ctype)) =>
        ret = ErrUnsupportedMediaType /\ Untouched /\ stages = <<>>

\* C2: for a record target the stages run in the order body (only with a
\* body), query, param; a stage runs only after every stage before it has
\* succeeded, a failing stage ends the call with its error, and a call that
\* succeeds has run both the query and the param pass.
C2_StagesInOrder ==
    bindsFields(targetType) =>
        /\ StageNames \in {<<>>, <<"body">>, <<"body", "query">>, <<"body", "query", "param">>,
                           <<"query">>, <<"query", "param">>}
        /\ \A i \in 1..(Len(stages) - 1) : stages[i].err = Nil
        /\ (stages # <<>> /\ stages[Len(stages)].err # Nil) =>
              Returned /\ ret.internal = stages[Len(stages)].err
        /\ (stages # <<>> /\ stages[1].stage = "body") => contentLength > 0
        /\ (Returned /\ ret = NoError) =>
              /\ Len(stages) >= 2
              /\ stages[Len(stages) - 1].stage = "query"
              /\ stages[Len(stages)].stage = "param"

\* C2's case: body, query and param each ran and each wrote into the target.
C2_Witness ==
    /\ pc = "done"
    /\ ret = NoError
    /\ targetType = TargetType
    /\ StageNames = <<"body", "query", "param">>
    /\ target[1] = <<"j">>
    /\ target[2] = 7
    /\ target[6] = <<-129>>

\* C2's other case: the query pass failed and the param pass did not run.
C2_WitnessFailure ==
    /\ pc = "done"
    /\ StageNames = <<"body", "query">>
    /\ stages[2].err = ErrSyntax
    /\ params # <<>>

\* C3: every error Bind returns is a client error with the 400 marker, a
\* message and the underlying error inside it, or the 415 marker.
C3_EveryErrorMarked ==
    (Returned /\ ret # NoError) =>
        \/ /\ ret.kind = "HTTPError"
           /\ ret.code = StatusBadRequest
           /\ ret.message # ""
           /\ ret.internal = cause /\ cause # Nil
        \/ ret = ErrUnsupportedMediaType

\* C3 holds of the requests whose body can be read.
C3_MarkedWhenBodyReadable ==
    (Returned /\ ret # NoError /\ ~readFails) =>
        \/ /\ ret.kind = "HTTPError"
           /\ ret.code = StatusBadRequest
           /\ ret.internal = cause /\ cause # Nil
        \/ ret = ErrUnsupportedMediaType

\* C4: when Bind has consumed the body, a read of the request body after
\* Bind returned yields the whole original body.
C4_BodyRereadable ==
    (pc = "read" /\ consumed) => downstream = BodyBytes

\* C4 holds on the paths that do not parse a form.
C4_RereadableUnlessForm ==
    (pc = "read" /\ consumed /\ decoder(effectiveType(ctype)) # "form") => downstream = BodyBytes

====
